---- MODULE Spec2Model ----
(***************************************************************************)
(* Model of template/tools/copier_wrapper.py and                           *)
(* template/tools/copier_update.py: reference parsing, stable-reference    *)
(* resolution, the cache policy, retrieval and forwarding to copier.       *)
(* Python strings are sequences of one-character strings.                  *)
(***************************************************************************)
EXTENDS Integers, Sequences, FiniteSets, TLC

VARIABLES
    input,        \* argument of the pure function under examination
    output,       \* its result
    lookups,      \* release lookups performed while computing output
    entry,        \* which script is running: "wrapper" | "update" | "none"
    pc,           \* position of the running script
    argv,         \* sys.argv[1:] of the wrapper / --data-file of the update
    github_data,  \* main(): github_data (<<>> when None or '')
    copier_args,  \* main(): copier_args
    m_ref,        \* main(): result of its own parse_github_path call
    f_ref,        \* fetch_github_file(): result of its parse_github_path call
    cache,        \* files under ~/.cache: path -> content stamp
    dirs,         \* cache directories that exist
    cache0,       \* cache when the run started
    cacheAtCall,  \* cache when fetch_github_file / fetch_project_data was called
    cacheAtExec,  \* cache when the copier subprocess was launched
    local_file,   \* path returned by the fetch (<<>> if none)
    log,          \* side effects of the current run, in order
    failure,      \* why the run ended: "none" or the failure kind
    copier_rc,    \* return code of the copier subprocess (NoRc if none)
    rc,           \* value returned by main()
    runs          \* number of runs started

vars == <<input, output, lookups, entry, pc, argv, github_data, copier_args,
          m_ref, f_ref, cache, dirs, cache0, cacheAtCall, cacheAtExec,
          local_file, log, failure, copier_rc, rc, runs>>

pureVars == <<input, output, lookups>>
runVars == <<entry, pc, argv, github_data, copier_args, m_ref, f_ref, cache,
             dirs, cache0, cacheAtCall, cacheAtExec, local_file, log, failure,
             copier_rc, rc, runs>>

(***************************************************************************)
(* Bounds                                                                  *)
(***************************************************************************)
MaxBody == 7
MaxTok == 5
MaxArgs == 3
MaxRuns == 2

(***************************************************************************)
(* Python string operations                                                *)
(***************************************************************************)
RECURSIVE SeqsUpTo(_, _)
SeqsUpTo(A, n) ==
    IF n = 0 THEN {<<>>}
    ELSE LET prev == SeqsUpTo(A, n - 1)
         IN prev \cup {Append(s, c) : s \in {t \in prev : Len(t) = n - 1}, c \in A}

\* str.startswith
startswith(s, p) == Len(s) >= Len(p) /\ SubSeq(s, 1, Len(p)) = p

\* str.find(c) + 1 for a one-character c: 0 when absent
IndexOf(s, c) ==
    IF \E i \in 1..Len(s) : s[i] = c
    THEN CHOOSE i \in 1..Len(s) : s[i] = c /\ \A j \in 1..(i - 1) : s[j] # c
    ELSE 0

\* c in s
Contains(s, c) == IndexOf(s, c) # 0

\* split with the maxsplit argument forgotten
RECURSIVE split_all(_, _, _)
split_all(s, c, n) ==
    IF IndexOf(s, c) = 0 THEN <<s>>
    ELSE LET i == IndexOf(s, c)
         IN <<SubSeq(s, 1, i - 1)>> \o split_all(SubSeq(s, i + 1, Len(s)), c, n)

\* str.split(c, n); n = -1 means no limit
RECURSIVE split(_, _, _)
split(s, c, n) ==
    IF n = 0 \/ IndexOf(s, c) = 0 THEN <<s>>
    ELSE LET i == IndexOf(s, c)
         IN <<SubSeq(s, 1, i - 1)>> \o split(SubSeq(s, i + 1, Len(s)), c, n - 1)

\* str.replace(a, b) for one-character a, b
replace(s, a, b) == [i \in 1..Len(s) |-> IF s[i] = a THEN b ELSE s[i]]

Digits == {"0", "1", "2", "3", "4", "5", "6", "7", "8", "9"}

\* index just after the run of digits that starts at i
RECURSIVE DigitRunEnd(_, _)
DigitRunEnd(s, i) ==
    IF i <= Len(s) /\ s[i] \in Digits THEN DigitRunEnd(s, i + 1) ELSE i

(***************************************************************************)
(* copier_wrapper.py                                                       *)
(***************************************************************************)
GH == <<"g", "h", ":">>
master == <<"m", "a", "s", "t", "e", "r">>
NoRef == [kind |-> "none", owner |-> <<>>, repo |-> <<>>, ref |-> <<>>, filepath |-> <<>>]
ValueError == [kind |-> "ValueError", owner |-> <<>>, repo |-> <<>>, ref |-> <<>>, filepath |-> <<>>]

\* get_stable_ref, as a function of what the release endpoint answered
get_stable_ref(response) ==
    IF response.status = 200 THEN response.tag_name ELSE master

\* the release lookup made before the number of parts is checked
NeedsStableRef_early(path) ==
    /\ startswith(path, GH)
    /\ ~Contains(SubSeq(path, 4, Len(path)), "@")

\* TRUE iff parse_github_path(path) reaches its get_stable_ref call
NeedsStableRef(path) ==
    /\ startswith(path, GH)
    /\ ~Contains(SubSeq(path, 4, Len(path)), "@")
    /\ Len(split(SubSeq(path, 4, Len(path)), "/", 2)) >= 3

\* parse_github_path; stable is the value get_stable_ref returns if called
parse_github_path(path, stable) ==
    IF ~startswith(path, GH) THEN ValueError
    ELSE LET path_without_prefix == SubSeq(path, 4, Len(path)) IN
         IF Contains(path_without_prefix, "@")
         THEN LET at == split(path_without_prefix, "@", 1)
                  parts == split(at[1], "/", -1)
                  ref_filepath_parts == split(at[2], "/", 1)
              IN IF Len(parts) # 2 THEN ValueError
                 ELSE IF Len(ref_filepath_parts) # 2 THEN ValueError
                 ELSE [kind |-> "ok", owner |-> parts[1], repo |-> parts[2],
                       ref |-> ref_filepath_parts[1],
                       filepath |-> ref_filepath_parts[2]]
         ELSE LET parts == split(path_without_prefix, "/", 2)
              IN IF Len(parts) < 3 THEN ValueError
                 ELSE [kind |-> "ok", owner |-> parts[1], repo |-> parts[2],
                       ref |-> stable, filepath |-> parts[3]]

\* re.match(r'^v?\d+\.\d+', ref), as a bool
is_release_tag(ref) ==
    LET start == IF Len(ref) >= 1 /\ ref[1] = "v" THEN 2 ELSE 1
        dot == DigitRunEnd(ref, start)
    IN /\ dot > start
       /\ dot + 1 <= Len(ref)
       /\ ref[dot] = "."
       /\ ref[dot + 1] \in Digits

\* f'{ref}_{filepath.replace("/", "_")}'
cache_filename(ref, filepath) == ref \o <<"_">> \o replace(filepath, "/", "_")


\* the unlink branch left out
must_refresh_never(ref, exists) == FALSE

\* the unlink branch taken for release tags too
must_refresh_always(ref, exists) == exists

\* the unlink branch of fetch_github_file
must_refresh(ref, exists) == ~is_release_tag(ref) /\ exists

\* cache_dir / cache_filename, relative to ~/.cache
cache_path(owner, repo, fname) == owner \o <<"/">> \o repo \o <<"/">> \o fname

GH_DATA == <<"-", "-", "g", "h", "-", "d", "a", "t", "a">>
DATA_FILE == <<"-", "-", "d", "a", "t", "a", "-", "f", "i", "l", "e">>

\* the argument loop of main(); i is the loop variable, argv is sys.argv[1:]
RECURSIVE ArgLoop(_, _, _, _)
ArgLoop(av, i, gd, ca) ==
    IF ~(i < Len(av))
    THEN [usage_error |-> FALSE, github_data |-> gd, copier_args |-> ca]
    ELSE LET j == i + 1
             arg == av[j]
         IN IF arg = GH_DATA
            THEN IF j + 1 < Len(av) + 1
                 THEN ArgLoop(av, j + 1, av[j + 1], ca)
                 ELSE [usage_error |-> TRUE, github_data |-> gd, copier_args |-> ca]
            ELSE ArgLoop(av, j, gd, Append(ca, arg))

\* a failed launch reported as success
copier_exit_ok(outcome) ==
    IF outcome.kind = "returned" THEN outcome.returncode ELSE 0

\* the return code collapsed to 0 or 1
copier_exit_flag(outcome) ==
    IF outcome.kind = "returned" /\ outcome.returncode = 0 THEN 0 ELSE 1

\* what main() returns for an outcome of subprocess.run(['copier'] + copier_args)
copier_exit(outcome) ==
    IF outcome.kind = "returned" THEN outcome.returncode ELSE 1

(***************************************************************************)
(* copier_update.py                                                        *)
(***************************************************************************)
DEFAULT_BRANCH == master

\* parse_github_url
parse_github_url(url) ==
    IF ~startswith(url, GH) THEN ValueError
    ELSE LET parts == split(SubSeq(url, 4, Len(url)), "/", 2)
         IN IF Len(parts) < 3 THEN ValueError
            ELSE [kind |-> "ok", owner |-> parts[1], repo |-> parts[2],
                  ref |-> DEFAULT_BRANCH, filepath |-> parts[3]]

\* cache_filename of fetch_project_data
update_cache_filename(filepath) == replace(filepath, "/", "_")

(***************************************************************************)
(* Environment: what the network and the inputs can be                     *)
(***************************************************************************)
ReleaseTag == <<"1", ".", "0">>
Responses == {[status |-> 200, tag_name |-> ReleaseTag],
              [status |-> 404, tag_name |-> <<>>]}

REF_BRANCH == GH \o <<"o", "/", "r", "@", "m", "/", "f">>
REF_TAG == GH \o <<"o", "/", "r", "@", "1", ".", "0", "/", "f">>
REF_LATEST == GH \o <<"o", "/", "r", "/", "f">>
REF_BAD == GH \o <<"o", "/", "r">>
LOCAL_FILE == <<"f">>
COPY == <<"c", "o", "p", "y">>

DataValues == {REF_BRANCH, REF_TAG, REF_LATEST, REF_BAD, LOCAL_FILE}
\* command lines: the option, a pass-through argument and one data value
Argvs == UNION {SeqsUpTo({GH_DATA, COPY, v}, MaxArgs) : v \in DataValues}

CopierOutcomes == {[kind |-> "returned", returncode |-> c] : c \in {0, 1, 2}}
                  \cup {[kind |-> "FileNotFoundError", returncode |-> 0],
                        [kind |-> "Exception", returncode |-> 0]}

BodyAlphabet == {"/", "@", "a", "b"}
ParseInputs == {p \o b : p \in {GH, <<"g", "h">>, <<>>},
                         b \in SeqsUpTo(BodyAlphabet, MaxBody)}

TokAlphabet == {"v", "1", ".", "d"}
NamedTokens == {master, <<"d", "e", "v">>,
                <<"f", "e", "a", "t", "u", "r", "e", "-", "x">>, <<"1">>,
                <<"v", "1", ".", "2">>, <<"1", ".", "0", ".", "0">>,
                <<"v", "2", ".", "3", ".", "4">>,
                <<"1", ".", "2", "-", "d", "e", "v">>,
                <<"v", "2", ".", "0", "x">>}
TagInputs == SeqsUpTo(TokAlphabet, MaxTok) \cup NamedTokens

(***************************************************************************)
(* State machine                                                           *)
(***************************************************************************)
Count(l, e) == Cardinality({i \in 1..Len(l) : l[i] = e})
Exists(path) == path \in DOMAIN cache
Remove(c, path) == [q \in DOMAIN c \ {path} |-> c[q]]
Write(c, path, v) == [q \in DOMAIN c \cup {path} |-> IF q = path THEN v ELSE c[q]]

RunInit ==
    /\ entry = "none" /\ pc = "idle" /\ argv = <<>>
    /\ github_data = <<>> /\ copier_args = <<>>
    /\ m_ref = NoRef /\ f_ref = NoRef
    /\ cache = <<>> /\ dirs = {}
    /\ cache0 = cache /\ cacheAtCall = cache /\ cacheAtExec = cache
    /\ local_file = <<>> /\ log = <<>> /\ failure = "none"
    /\ copier_rc = {} /\ rc = {} /\ runs = 0

PureInit == input = <<>> /\ output = NoRef /\ lookups = 0

Init == PureInit /\ RunInit

\* common reset when a script starts
Begin(e, a) ==
    /\ pc = "idle"
    /\ runs < MaxRuns
    /\ entry' = e /\ argv' = a
    /\ github_data' = <<>> /\ copier_args' = <<>>
    /\ m_ref' = NoRef /\ f_ref' = NoRef
    /\ cache0' = cache /\ cacheAtCall' = cache /\ cacheAtExec' = cache
    /\ local_file' = <<>> /\ log' = <<>> /\ failure' = "none"
    /\ copier_rc' = {} /\ rc' = {} /\ runs' = runs + 1
    /\ UNCHANGED <<cache, dirs>>

\* a run ends with return value code
Return(why, code) == failure' = why /\ rc' = {code} /\ pc' = "done"

\* python copier_wrapper.py <a>
StartWrapper == \E a \in Argvs : Begin("wrapper", a) /\ pc' = "args" /\ UNCHANGED pureVars

\* main(): the argument loop
ParseArgs ==
    /\ entry = "wrapper" /\ pc = "args"
    /\ LET r == ArgLoop(argv, 0, <<>>, <<>>)
       IN IF r.usage_error
          THEN Return("usage", 1) /\ UNCHANGED <<github_data, copier_args>>
          ELSE /\ github_data' = r.github_data
               /\ copier_args' = r.copier_args
               /\ pc' = "data"
               /\ UNCHANGED <<failure, rc>>
    /\ UNCHANGED <<entry, argv, m_ref, f_ref, cache, dirs, cache0, cacheAtCall,
                   cacheAtExec, local_file, log, copier_rc, runs>>
    /\ UNCHANGED pureVars

\* main(): no --gh-data, or a value that is not a gh: reference
PassThrough ==
    /\ entry = "wrapper" /\ pc = "data"
    /\ ~startswith(github_data, GH)
    /\ copier_args' = IF github_data # <<>>
                      THEN copier_args \o <<DATA_FILE, github_data>>
                      ELSE copier_args
    /\ pc' = "copier"
    /\ UNCHANGED <<entry, argv, github_data, m_ref, f_ref, cache, dirs, cache0,
                   cacheAtCall, cacheAtExec, local_file, log, failure,
                   copier_rc, rc, runs>>
    /\ UNCHANGED pureVars

\* main(): parse_github_path(github_data) and cache_dir.mkdir; an OSError of
\* mkdir lands in the same except block and is reported as a failed fetch
MainResolve ==
    /\ entry = "wrapper" /\ pc = "data"
    /\ github_data # <<>> /\ startswith(github_data, GH)
    /\ \E response \in Responses, mkdir_ok \in BOOLEAN :
         LET r == parse_github_path(github_data, get_stable_ref(response))
             log1 == IF NeedsStableRef(github_data)
                     THEN Append(log, "lookup") ELSE log
         IN IF r.kind = "ValueError"
            THEN /\ Return("parse", 1)
                 /\ log' = log1
                 /\ UNCHANGED <<m_ref, dirs>>
            ELSE IF ~mkdir_ok
            THEN /\ Return("fetch", 1)
                 /\ m_ref' = r
                 /\ log' = log1
                 /\ UNCHANGED dirs
            ELSE /\ m_ref' = r
                 /\ dirs' = dirs \cup {r.owner \o <<"/">> \o r.repo}
                 /\ log' = Append(log1, "mkdir")
                 /\ pc' = "fetch"
                 /\ UNCHANGED <<failure, rc>>
    /\ UNCHANGED <<entry, argv, github_data, copier_args, f_ref, cache, cache0,
                   cacheAtCall, cacheAtExec, local_file, copier_rc, runs>>
    /\ UNCHANGED pureVars

\* fetch_github_file(): parse, file name, classification, unlink
CachePolicy ==
    /\ entry = "wrapper" /\ pc = "fetch"
    /\ \E response \in Responses :
         LET r == parse_github_path(github_data, get_stable_ref(response))
             log1 == IF NeedsStableRef(github_data)
                     THEN Append(log, "lookup") ELSE log
             path == cache_path(r.owner, r.repo, cache_filename(r.ref, r.filepath))
         IN IF r.kind = "ValueError"
            THEN /\ Return("parse", 1)
                 /\ log' = log1
                 /\ UNCHANGED <<f_ref, cache>>
            ELSE /\ f_ref' = r
                 /\ IF must_refresh(r.ref, Exists(path))
                    THEN cache' = Remove(cache, path) /\ log' = Append(log1, "unlink")
                    ELSE cache' = cache /\ log' = log1
                 /\ pc' = "retrieve"
                 /\ UNCHANGED <<failure, rc>>
    /\ cacheAtCall' = cache
    /\ UNCHANGED <<entry, argv, github_data, copier_args, m_ref, dirs, cache0,
                   cacheAtExec, local_file, copier_rc, runs>>
    /\ UNCHANGED pureVars

\* pooch.retrieve(url, known_hash=None, path, fname): an existing file is
\* returned as it is, a missing one is downloaded
PoochRetrieve(path, ok, next) ==
    IF Exists(path)
    THEN /\ local_file' = path
         /\ pc' = next
         /\ UNCHANGED <<cache, log, failure, rc>>
    ELSE /\ log' = Append(log, "download")
         /\ IF ok
            THEN /\ cache' = Write(cache, path, runs)
                 /\ local_file' = path
                 /\ pc' = next
                 /\ UNCHANGED <<failure, rc>>
            ELSE /\ Return("fetch", 1)
                 /\ UNCHANGED <<cache, local_file>>

\* fetch_github_file(): pooch.retrieve, then main() extends copier_args
Retrieve ==
    /\ entry = "wrapper" /\ pc = "retrieve"
    /\ \E ok \in BOOLEAN :
         /\ PoochRetrieve(cache_path(f_ref.owner, f_ref.repo,
                                     cache_filename(f_ref.ref, f_ref.filepath)),
                          ok, "copier")
         /\ copier_args' = IF pc' = "copier"
                           THEN copier_args \o <<DATA_FILE, local_file'>>
                           ELSE copier_args
    /\ UNCHANGED <<entry, argv, github_data, m_ref, f_ref, dirs, cache0,
                   cacheAtCall, cacheAtExec, copier_rc, runs>>
    /\ UNCHANGED pureVars

\* main(): subprocess.run(['copier'] + copier_args)
RunCopier ==
    /\ entry = "wrapper" /\ pc = "copier"
    /\ \E outcome \in CopierOutcomes :
         /\ copier_rc' = IF outcome.kind = "returned" THEN {outcome.returncode} ELSE {}
         /\ failure' = CASE outcome.kind = "returned" -> "none"
                         [] outcome.kind = "FileNotFoundError" -> "copier_not_found"
                         [] OTHER -> "copier_error"
         /\ rc' = {copier_exit(outcome)}
    /\ log' = Append(log, "copier")
    /\ cacheAtExec' = cache
    /\ pc' = "done"
    /\ UNCHANGED <<entry, argv, github_data, copier_args, m_ref, f_ref, cache,
                   dirs, cache0, cacheAtCall, local_file, runs>>
    /\ UNCHANGED pureVars

\* python copier_update.py --data-file <d>
StartUpdate ==
    \E d \in DataValues : Begin("update", <<d>>) /\ pc' = "u_data" /\ UNCHANGED pureVars

\* copier_update.main(): a local data file
UpdateLocal ==
    /\ entry = "update" /\ pc = "u_data"
    /\ ~startswith(argv[1], GH)
    /\ \E present \in BOOLEAN :
         IF present
         THEN local_file' = argv[1] /\ pc' = "u_update" /\ UNCHANGED <<failure, rc>>
         ELSE Return("data_file_missing", 1) /\ UNCHANGED local_file
    /\ UNCHANGED <<entry, argv, github_data, copier_args, m_ref, f_ref, cache,
                   dirs, cache0, cacheAtCall, cacheAtExec, log, copier_rc, runs>>
    /\ UNCHANGED pureVars

\* copier_update.main(): parse_github_url and cache_dir.mkdir
UpdateResolve ==
    /\ entry = "update" /\ pc = "u_data"
    /\ startswith(argv[1], GH)
    /\ \E mkdir_ok \in BOOLEAN :
         LET r == parse_github_url(argv[1])
         IN IF r.kind = "ValueError"
            THEN Return("parse", 1) /\ UNCHANGED <<m_ref, dirs, log>>
            ELSE IF ~mkdir_ok
            THEN Return("fetch", 1) /\ m_ref' = r /\ UNCHANGED <<dirs, log>>
            ELSE /\ m_ref' = r
                 /\ dirs' = dirs \cup {r.owner \o <<"/">> \o r.repo}
                 /\ log' = Append(log, "mkdir")
                 /\ pc' = "u_fetch"
                 /\ UNCHANGED <<failure, rc>>
    /\ UNCHANGED <<entry, argv, github_data, copier_args, f_ref, cache, cache0,
                   cacheAtCall, cacheAtExec, local_file, copier_rc, runs>>
    /\ UNCHANGED pureVars

\* fetch_project_data()
FetchProjectData ==
    /\ entry = "update" /\ pc = "u_fetch"
    /\ \E ok \in BOOLEAN :
         PoochRetrieve(cache_path(m_ref.owner, m_ref.repo,
                                  update_cache_filename(m_ref.filepath)),
                       ok, "u_update")
    /\ cacheAtCall' = cache
    /\ UNCHANGED <<entry, argv, github_data, copier_args, m_ref, f_ref, dirs,
                   cache0, cacheAtExec, copier_rc, runs>>
    /\ UNCHANGED pureVars

\* copier_update.main(): run_update(...)
RunUpdate ==
    /\ entry = "update" /\ pc = "u_update"
    /\ \E ok \in BOOLEAN :
         IF ok THEN Return("none", 0) ELSE Return("update_error", 1)
    /\ log' = Append(log, "copier")
    /\ cacheAtExec' = cache
    /\ UNCHANGED <<entry, argv, github_data, copier_args, m_ref, f_ref, cache,
                   dirs, cache0, cacheAtCall, local_file, copier_rc, runs>>
    /\ UNCHANGED pureVars

\* sys.exit(main()): the process ends; only the files under ~/.cache remain
Exit ==
    /\ pc = "done"
    /\ entry' = "none" /\ pc' = "idle" /\ argv' = <<>>
    /\ github_data' = <<>> /\ copier_args' = <<>>
    /\ m_ref' = NoRef /\ f_ref' = NoRef
    /\ cache0' = cache /\ cacheAtCall' = cache /\ cacheAtExec' = cache
    /\ local_file' = <<>> /\ log' = <<>> /\ failure' = "none"
    /\ copier_rc' = {} /\ rc' = {}
    /\ UNCHANGED <<cache, dirs, runs>>
    /\ UNCHANGED pureVars

Next ==
    \/ StartWrapper \/ ParseArgs \/ PassThrough \/ MainResolve \/ CachePolicy
    \/ Retrieve \/ RunCopier
    \/ StartUpdate \/ UpdateLocal \/ UpdateResolve \/ FetchProjectData \/ RunUpdate
    \/ Exit

Spec == Init /\ [][Next]_vars

(***************************************************************************)
(* parse_github_path on its own                                            *)
(***************************************************************************)
InitParse == input \in ParseInputs /\ output = NoRef /\ lookups = 0 /\ RunInit

ParsePath ==
    /\ output.kind = "none"
    /\ \E response \in Responses :
         output' = parse_github_path(input, get_stable_ref(response))
    /\ lookups' = IF NeedsStableRef(input) THEN lookups + 1 ELSE lookups
    /\ UNCHANGED input
    /\ UNCHANGED runVars

NextParse == ParsePath

SpecParse == InitParse /\ [][NextParse]_vars

(***************************************************************************)
(* The release-tag classification on its own                               *)
(***************************************************************************)
InitTag == input \in TagInputs /\ output = NoRef /\ lookups = 0 /\ RunInit

Classify ==
    /\ output.kind = "none"
    /\ output' = [NoRef EXCEPT !.kind = IF is_release_tag(input)
                                        THEN "release_tag" ELSE "branch"]
    /\ UNCHANGED <<input, lookups>>
    /\ UNCHANGED runVars

NextTag == Classify

SpecTag == InitTag /\ [][NextTag]_vars

(***************************************************************************)
(* Properties                                                              *)
(***************************************************************************)
FetchPath == cache_path(f_ref.owner, f_ref.repo,
                        cache_filename(f_ref.ref, f_ref.filepath))
UpdatePath == cache_path(m_ref.owner, m_ref.repo,
                         update_cache_filename(m_ref.filepath))
Before(l, a, b) == \A i, j \in 1..Len(l) : (l[i] = a /\ l[j] = b) => i < j

\* fetch_github_file was called on a branch whose cache file was there
StaleBranchCase ==
    /\ entry = "wrapper" /\ f_ref.kind = "ok"
    /\ ~is_release_tag(f_ref.ref)
    /\ FetchPath \in DOMAIN cacheAtCall

\* C1: when fetch_github_file is called on a reference whose version is
\* classified mutable and whose cache file exists, the file is gone when
\* pooch.retrieve runs (the unlink precedes the download), and the file that is
\* returned was written by this run, not by an earlier one.
C1_StaleBranchFileDeleted ==
    StaleBranchCase =>
        /\ Count(log, "unlink") = 1
        /\ Before(log, "unlink", "download")
        /\ pc = "retrieve" => FetchPath \notin DOMAIN cache
        /\ local_file # <<>> =>
              /\ local_file = FetchPath
              /\ Count(log, "download") = 1
              /\ cache[FetchPath] = runs
              /\ cache[FetchPath] # cacheAtCall[FetchPath]

C1_Witness == StaleBranchCase /\ pc = "copier" /\ local_file = FetchPath

\* fetch_github_file was called with an explicit release tag whose cache file
\* was there
CachedTagCase ==
    /\ entry = "wrapper" /\ f_ref.kind = "ok"
    /\ Contains(github_data, "@")
    /\ is_release_tag(f_ref.ref)
    /\ FetchPath \in DOMAIN cacheAtCall

\* C2: for an explicit version classified as a release tag whose cache file
\* exists, nothing is deleted, no release lookup and no download happens, the
\* file keeps its content and the returned path is that file.
C2_CachedTagReused ==
    CachedTagCase =>
        /\ Count(log, "unlink") = 0
        /\ Count(log, "lookup") = 0
        /\ Count(log, "download") = 0
        /\ FetchPath \in DOMAIN cache
        /\ cache[FetchPath] = cacheAtCall[FetchPath]
        /\ pc \in {"copier", "done"} => local_file = FetchPath

C2_Witness == CachedTagCase /\ pc = "copier" /\ local_file = FetchPath

\* a whole token of the form v?digits(.digits)+
RECURSIVE DotGroups(_, _)
DotGroups(s, i) ==
    /\ i < Len(s)
    /\ s[i] = "."
    /\ LET e == DigitRunEnd(s, i + 1)
       IN e > i + 1 /\ (e > Len(s) \/ DotGroups(s, e))

IsSemverLike(s) ==
    LET start == IF Len(s) >= 1 /\ s[1] = "v" THEN 2 ELSE 1
        d == DigitRunEnd(s, start)
    IN d > start /\ DotGroups(s, d)

\* C3: a token is classified as a release tag if and only if the whole token
\* is an optional v followed by two or more dot-separated groups of digits.
C3_ReleaseTagIffSemver ==
    output.kind \in {"release_tag", "branch"} =>
        ((output.kind = "release_tag") <=> IsSemverLike(input))

\* input is gh:<owner>/<repo>@<ref>/<path> cut at positions i, j, k of the
\* part after the prefix
Plain(s) == s # <<>> /\ ~Contains(s, "/") /\ ~Contains(s, "@")
Shorthand(body, i, j, k) ==
    /\ i < j /\ j < k /\ k < Len(body)
    /\ body[i] = "/" /\ body[j] = "@" /\ body[k] = "/"
    /\ Plain(SubSeq(body, 1, i - 1))
    /\ Plain(SubSeq(body, i + 1, j - 1))
    /\ Plain(SubSeq(body, j + 1, k - 1))

\* C4: for gh:<owner>/<repo>@<ref>/<path> with owner, repo, ref non-empty and
\* free of '/' and '@' and path non-empty, parse_github_path returns exactly
\* (owner, repo, ref, path) and performs no release lookup.
C4_ParsesShorthand ==
    (output.kind # "none" /\ startswith(input, GH)) =>
        LET body == SubSeq(input, 4, Len(input))
        IN \A i, j, k \in 1..Len(body) :
              Shorthand(body, i, j, k) =>
                 /\ output = [kind |-> "ok",
                              owner |-> SubSeq(body, 1, i - 1),
                              repo |-> SubSeq(body, i + 1, j - 1),
                              ref |-> SubSeq(body, j + 1, k - 1),
                              filepath |-> SubSeq(body, k + 1, Len(body))]
                 /\ lookups = 0

C4_Witness ==
    /\ output.kind = "ok" /\ startswith(input, GH)
    /\ LET body == SubSeq(input, 4, Len(input))
       IN \E i, j, k \in 1..Len(body) : Shorthand(body, i, j, k)
    /\ Contains(output.filepath, "/")

\* C5: parse_github_path either raises ValueError or returns four non-empty
\* components; an input without the gh: prefix is rejected.
C5_NoEmptyField ==
    output.kind # "none" =>
        /\ ~startswith(input, GH) => output.kind = "ValueError"
        /\ output.kind = "ok" =>
              /\ output.owner # <<>> /\ output.repo # <<>>
              /\ output.ref # <<>> /\ output.filepath # <<>>

\* C6: a run of the wrapper that ends in the usage error or in the format
\* error returns 1 and has made no release lookup, no download, no cache
\* directory, no deletion and no copier call.
C6_FailFast ==
    (entry = "wrapper" /\ pc = "done" /\ failure \in {"usage", "parse"}) =>
        /\ rc = {1}
        /\ log = <<>>
        /\ cache = cache0

C6_Witness ==
    /\ entry = "wrapper" /\ pc = "done" /\ failure = "usage"
    /\ Len(argv) = 3 /\ argv[1] = GH_DATA /\ argv[2] = REF_BRANCH

\* the wrapper resolved a gh: reference and copier was not found
CopierMissingCase ==
    /\ entry = "wrapper" /\ pc = "done"
    /\ failure = "copier_not_found" /\ f_ref.kind = "ok"

\* C7 as stated: when the reference resolves and copier cannot be located the
\* run returns nonzero and the cache is as it was when the run started, no
\* fetch having been attempted.
C7_CacheUntouchedWhenCopierMissing ==
    CopierMissingCase =>
        /\ rc # {0}
        /\ cache = cache0
        /\ Count(log, "download") = 0
        /\ Count(log, "unlink") = 0

\* C7 amended: when the reference resolves and copier cannot be located the
\* run returns 1; the fetch of that run came first and its file stays in the
\* cache, and the failed launch changes nothing in the cache.
C7_CopierMissingAfterFetch ==
    CopierMissingCase =>
        /\ rc = {1}
        /\ copier_rc = {}
        /\ local_file = FetchPath
        /\ FetchPath \in DOMAIN cache
        /\ cache = cacheAtExec
        /\ Before(log, "download", "copier")
        /\ Before(log, "unlink", "copier")

C7_Witness == CopierMissingCase /\ cache # cache0 /\ Count(log, "download") = 1

\* C8: in one run of the wrapper the latest release is looked up at most
\* once, and the token main() got is the one fetch_github_file uses.
C8_SingleResolution ==
    entry = "wrapper" =>
        /\ Count(log, "lookup") <= 1
        /\ (m_ref.kind = "ok" /\ f_ref.kind = "ok") => m_ref.ref = f_ref.ref

\* C9: in copier_update a cache file that exists when fetch_project_data is
\* called is deleted before the retrieval, so the file handed to run_update
\* was written by this run.
C9_UpdateRefreshesBranch ==
    (/\ entry = "update" /\ m_ref.kind = "ok"
     /\ pc \in {"u_update", "done"} /\ local_file # <<>>
     /\ UpdatePath \in DOMAIN cacheAtCall) =>
        /\ Count(log, "unlink") = 1
        /\ cache[UpdatePath] = runs

\* C10 as stated: main() returns 1 after a parse failure, a fetch failure, a
\* missing --gh-data value or a missing copier, and otherwise exactly the
\* return code of copier, which is run at most once and only after no failure.
C10_ExitCode ==
    (entry = "wrapper" /\ pc = "done") =>
        /\ Count(log, "copier") <= 1
        /\ failure \in {"parse", "fetch", "usage"} => Count(log, "copier") = 0
        /\ IF failure \in {"parse", "fetch", "usage", "copier_not_found"}
           THEN rc = {1}
           ELSE rc = copier_rc /\ copier_rc # {}

\* C10 amended: main() returns 1 after a parse failure, a fetch failure, a
\* missing --gh-data value, a missing copier or any other exception raised by
\* launching copier, and otherwise exactly the return code of copier, which is
\* run at most once and only after no failure.
C10_ExitCodeOrLaunchError ==
    (entry = "wrapper" /\ pc = "done") =>
        /\ Count(log, "copier") <= 1
        /\ failure \in {"parse", "fetch", "usage"} => Count(log, "copier") = 0
        /\ IF failure \in {"parse", "fetch", "usage", "copier_not_found",
                           "copier_error"}
           THEN rc = {1}
           ELSE rc = copier_rc /\ copier_rc # {} /\ Count(log, "copier") = 1

C10_Witness ==
    /\ entry = "wrapper" /\ pc = "done" /\ failure = "none"
    /\ rc = {2} /\ Count(log, "download") = 1

====
